---- MODULE Spec2Model ----
(***************************************************************************)
(* Model of models/frustum_proposal.py: the FrustumProposal engine, its    *)
(* calibrated coordinate transforms (velodyne <-> reference camera <->     *)
(* rectified camera -> image) and the frustum extraction built on them.    *)
(*                                                                         *)
(* Numbers are integers.  Every input of the model is an integer small     *)
(* enough that float64 arithmetic on it is exact, so +, - and * are the    *)
(* integer operations.  The one division of the program, the perspective   *)
(* divide, is modelled as an exact quotient with the IEEE values of a      *)
(* division by zero (+inf, -inf, NaN), see true_divide.                    *)
(* Arrays are sequences of rows; a row is a sequence of numbers.           *)
(***************************************************************************)
EXTENDS Integers, Sequences, FiniteSets, TLC

\* ------------------------------------------------------------------ bounds
\* largest number of points in the caller's point cloud
MaxPts == 2
\* largest number of 2D boxes in one call
MaxBoxes == 2

\* ----------------------------------------------------------- numpy helpers
\* Python's None, where the other values are strings
None == "None"
\* an attribute not set yet, a list not built yet
NoArray == << >>

\* an array as a stored value: the sequence with its elements computed
Arr(f) == f \o << >>

RECURSIVE DotN(_, _, _)
\* sum of a[j]*b[j] for j in 1..n: one entry of np.dot
DotN(a, b, n) == IF n = 0 THEN 0 ELSE DotN(a, b, n - 1) + a[n] * b[n]

\* np.transpose of an array with nc columns (nc is given because an array
\* with no rows still has a column count)
Transpose(A, nc) == Arr([c \in 1..nc |-> Arr([r \in 1..Len(A) |-> A[r][c]])])

\* np.dot(A, B) for 2-D arrays, B with at least one row
MatMul(A, B) ==
    LET Bt == Transpose(B, Len(B[1]))
    IN  Arr([r \in 1..Len(A) |->
            Arr([c \in 1..Len(Bt) |-> DotN(A[r], Bt[c], Len(B))])])

\* unary minus on a 2-D array
Neg(A) == Arr([r \in 1..Len(A) |-> Arr([c \in 1..Len(A[r]) |-> 0 - A[r][c]])])

\* A[:, lo-1:hi] (columns lo..hi, 1-based)
Cols(A, lo, hi) == Arr([r \in 1..Len(A) |-> SubSeq(A[r], lo, hi)])

\* faulty variant of ReshapeOk: a buffer that is too long is accepted
ReshapeOkAtLeast(buf, nr, nc) == Len(buf) >= nr * nc
\* np.reshape(buf, [nr, nc]), row-major; ValueError when the size differs
ReshapeOk(buf, nr, nc) == Len(buf) = nr * nc
Reshape(buf, nr, nc) ==
    Arr([r \in 1..nr |-> Arr([c \in 1..nc |-> buf[(r - 1) * nc + c]])])

\* np.zeros_like of a 2-D array with nc columns
ZerosLike(A, nc) == Arr([r \in 1..Len(A) |-> Arr([c \in 1..nc |-> 0])])

\* faulty variant of BoolIndex: the rows come out in reverse order
BoolIndexReversed(arr, mask) ==
    LET idx == SelectSeq([i \in 1..Len(mask) |-> i], LAMBDA i : mask[i])
    IN  Arr([k \in 1..Len(idx) |-> arr[idx[Len(idx) + 1 - k]]])
\* arr[mask, :] : the rows whose mask entry is TRUE, in the order of arr
BoolIndex(arr, mask) ==
    LET idx == SelectSeq([i \in 1..Len(mask) |-> i], LAMBDA i : mask[i])
    IN  Arr([k \in 1..Len(idx) |-> arr[idx[k]]])

\* a / b of float64 arrays, one entry: an exact quotient n/d with d > 0, or
\* with d = 0 the value numpy gives for a zero divisor: n = 1 is +inf,
\* n = -1 is -inf, n = 0 is NaN (0/0).  A zero depth is +0.0: it is a sum
\* that holds the term 1 * P[2][3].
Sgn(a) == IF a > 0 THEN 1 ELSE IF a < 0 THEN 0 - 1 ELSE 0
\* faulty variant of true_divide: a zero divisor gives 0
true_divide_guarded(a, b) ==
    IF b > 0 THEN [n |-> a, d |-> b]
    ELSE IF b < 0 THEN [n |-> 0 - a, d |-> 0 - b]
    ELSE [n |-> 0, d |-> 1]
true_divide(a, b) ==
    IF b > 0 THEN [n |-> a, d |-> b]
    ELSE IF b < 0 THEN [n |-> 0 - a, d |-> 0 - b]
    ELSE [n |-> Sgn(a), d |-> 0]

\* q < b and q >= b for a quotient q and a finite number b (IEEE: every
\* comparison with NaN is false)
Less(q, b) == IF q.d > 0 THEN q.n < b * q.d ELSE q.n = 0 - 1
GreaterEq(q, b) == IF q.d > 0 THEN q.n >= b * q.d ELSE q.n = 1

\* np.linalg.inv of a 3x3 matrix: adjugate over determinant.  The model's R0
\* matrices have determinant 1 or -1, for which the quotient is exact.
Det3(M) ==
      M[1][1] * (M[2][2] * M[3][3] - M[2][3] * M[3][2])
    - M[1][2] * (M[2][1] * M[3][3] - M[2][3] * M[3][1])
    + M[1][3] * (M[2][1] * M[3][2] - M[2][2] * M[3][1])
Nxt(i) == (i % 3) + 1
Cof(M, i, j) ==
      M[Nxt(i)][Nxt(j)] * M[Nxt(Nxt(i))][Nxt(Nxt(j))]
    - M[Nxt(i)][Nxt(Nxt(j))] * M[Nxt(Nxt(i))][Nxt(j)]
linalg_inv(M) ==
    LET det == Det3(M)
    IN  Arr([i \in 1..3 |-> Arr([j \in 1..3 |-> Cof(M, j, i) \div det])])

\* ------------------------------------------------- the engine's transforms
\* faulty variant of inverse_rigid_trans: the translation is R^T t
inverse_rigid_trans_unsigned(Tr) ==
    LET Rt == Transpose(Cols(Tr, 1, 3), 3)
        t  == Arr([j \in 1..3 |-> Tr[j][4]])
    IN  Arr([i \in 1..3 |->
            Arr([j \in 1..4 |->
                IF j <= 3 THEN Rt[i][j] ELSE DotN(Rt[i], t, 3)])])
\* inverse_rigid_trans: inv_Tr = zeros_like(Tr); inv_Tr[0:3,0:3] = R^T;
\* inv_Tr[0:3,3] = dot(-R^T, t)
inverse_rigid_trans(Tr) ==
    LET Rt    == Transpose(Cols(Tr, 1, 3), 3)
        negRt == Neg(Rt)
        t     == Arr([j \in 1..3 |-> Tr[j][4]])
    IN  Arr([i \in 1..3 |->
            Arr([j \in 1..4 |->
                IF j <= 3 THEN Rt[i][j] ELSE DotN(negRt[i], t, 3)])])

_cart2hom(pts_3d) == Arr([r \in 1..Len(pts_3d) |-> Append(pts_3d[r], 1)])

_project_velo_to_ref(slf, pts_3d_velo) ==
    MatMul(_cart2hom(pts_3d_velo), Transpose(slf.V2C, 4))

_project_ref_to_velo(slf, pts_3d_ref) ==
    MatMul(_cart2hom(pts_3d_ref), Transpose(slf.C2V, 4))

\* faulty variant of _project_rect_to_ref: R0 is not inverted
project_rect_to_ref_no_inverse(slf, pts_3d_rect) ==
    Transpose(MatMul(slf.R0, Transpose(pts_3d_rect, 3)), Len(pts_3d_rect))
_project_rect_to_ref(slf, pts_3d_rect) ==
    Transpose(MatMul(linalg_inv(slf.R0), Transpose(pts_3d_rect, 3)),
              Len(pts_3d_rect))

_project_ref_to_rect(slf, pts_3d_ref) ==
    Transpose(MatMul(slf.R0, Transpose(pts_3d_ref, 3)), Len(pts_3d_ref))

project_rect_to_velo(slf, pts_3d_rect) ==
    _project_ref_to_velo(slf, _project_rect_to_ref(slf, pts_3d_rect))

_project_velo_to_rect(slf, pts_3d_velo) ==
    _project_ref_to_rect(slf, _project_velo_to_ref(slf, pts_3d_velo))

\* pts_2d = dot(hom, P^T); pts_2d[:,0] /= pts_2d[:,2]; pts_2d[:,1] /= pts_2d[:,2]
_project_rect_to_image(slf, pts_3d_rect) ==
    LET pts_2d == MatMul(_cart2hom(pts_3d_rect), Transpose(slf.P, 4))
    IN  Arr([r \in 1..Len(pts_2d) |->
            << true_divide(pts_2d[r][1], pts_2d[r][3]),
               true_divide(pts_2d[r][2], pts_2d[r][3]) >>])

_project_velo_to_image(slf, pts_3d_velo) ==
    _project_rect_to_image(slf, _project_velo_to_rect(slf, pts_3d_velo))

\* q <= b, as Less
LessEq(q, b) == IF q.d > 0 THEN q.n <= b * q.d ELSE q.n = 0 - 1
\* faulty variant of InBoxTest: the upper bounds are included
InBoxTestClosed(uv, xmin, ymin, xmax, ymax) ==
    /\ LessEq(uv[1], xmax)
    /\ GreaterEq(uv[1], xmin)
    /\ LessEq(uv[2], ymax)
    /\ GreaterEq(uv[2], ymin)
\* the half-open pixel test of lines 125-126 and 150-153, one point
InBoxTest(uv, xmin, ymin, xmax, ymax) ==
    /\ Less(uv[1], xmax)
    /\ GreaterEq(uv[1], xmin)
    /\ Less(uv[2], ymax)
    /\ GreaterEq(uv[2], ymin)

\* faulty variant of ClipTest: the clip distance itself passes
ClipTestInclusive(pt, clip_distance) == pt[1] >= clip_distance
\* fov_inds & (pc_velo[:, 0] > clip_distance), one point
ClipTest(pt, clip_distance) == pt[1] > clip_distance

\* _get_lidar_in_image_fov with return_more=True
_get_lidar_in_image_fov(slf, pc, xmin, ymin, xmax, ymax, clip_distance) ==
    LET pts_2d   == _project_velo_to_image(slf, pc)
        fov_inds == Arr([i \in 1..Len(pc) |->
                        /\ InBoxTest(pts_2d[i], xmin, ymin, xmax, ymax)
                        /\ ClipTest(pc[i], clip_distance)])
    IN  [imgfov_pc_velo |-> BoolIndex(pc, fov_inds),
         pts_2d         |-> pts_2d,
         fov_inds       |-> fov_inds]

\* ------------------------------------------------------------ input sets
\* clip_distance=2.0, the default of _get_lidar_in_image_fov
DefaultClip == 2

Keys == {"P", "Tr_velo_to_cam", "R0_rect"}

I34 == << 1, 0, 0, 0,   0, 1, 0, 0,   0, 0, 1, 0 >>
I33 == << 1, 0, 0,   0, 1, 0,   0, 0, 1 >>
\* camera x = -velo y, camera y = -velo z, camera z = velo x (the KITTI axes)
VeloToCamAxes == << 0, -1, 0, 0,   0, 0, -1, 0,   1, 0, 0, 0 >>
\* the same rotation with a translation
VeloToCamShift == << 0, -1, 0, 1,   0, 0, -1, 2,   1, 0, 0, -1 >>
\* not rigid: the depth axis is scaled by 2
VeloToCamScaled == << 0, -1, 0, 0,   0, 0, -1, 0,   2, 0, 0, 0 >>
\* focal length 2, principal point (1, 1), a baseline term
PFocal == << 2, 0, 1, 1,   0, 2, 1, 0,   0, 0, 1, 0 >>
\* invertible (determinant 1), neither orthonormal nor its own inverse
R0Skew == << 0, -1, 0,   1, 1, 0,   0, 0, 1 >>

Calib(p, tr, r0) == [k \in Keys |->
    IF k = "P" THEN p ELSE IF k = "Tr_velo_to_cam" THEN tr ELSE r0]
Without(c, key) == [k \in (DOMAIN c) \ {key} |-> c[k]]

CalibIdentity == Calib(I34, I34, I33)

GoodScenes ==
    { [calibs |-> CalibIdentity,                          shape |-> <<100, 100, 3>>],
      [calibs |-> Calib(I34, VeloToCamAxes, I33),         shape |-> <<100, 100, 3>>],
      [calibs |-> Calib(I34, VeloToCamAxes, I33),         shape |-> <<60, 120, 3>>],
      [calibs |-> Calib(PFocal, VeloToCamShift, R0Skew),  shape |-> <<100, 100, 3>>],
      [calibs |-> Calib(I34, VeloToCamScaled, I33),       shape |-> <<100, 100, 3>>] }

BadCalibs ==
    { Without(CalibIdentity, "P"),
      Without(CalibIdentity, "Tr_velo_to_cam"),
      Without(CalibIdentity, "R0_rect"),
      Calib(SubSeq(I34, 1, 11), I34, I33),
      Calib(I34, Append(I34, 0), I33),
      Calib(I34, I34, SubSeq(I33, 1, 8)) }

BadScenes == { [calibs |-> c, shape |-> <<100, 100, 3>>] : c \in BadCalibs }

\* points (x, y, z, reflectance) in velodyne coordinates
Points ==
    { <<5, 0, 0, 1>>,
      <<2, 0, 0, 2>>,
      <<1, 0, 0, 3>>,
      <<3, -150, -150, 4>>,
      <<3, -330, -150, 5>> }

\* boxes (xmin, ymin, xmax, ymax)
Boxes ==
    { <<0, 0, 50, 50>>,
      <<50, 50, 120, 120>> }

\* (box, clip_distance) of the caller's direct _get_lidar_in_image_fov calls
FovArgs ==
    { << <<0, 0, 50, 50>>, DefaultClip >>,
      << <<0, 0, 50, 50>>, 5 >>,
      << <<60, 60, 100, 100>>, DefaultClip >> }

SeqsUpTo(S, n) == UNION { [1..k -> S] : k \in 0..n }

\* ------------------------------------------------------------------ state
VARIABLES
    calibs,                 \* the caller's calibration mapping
    img_shape,              \* the caller's image shape
    boxes2d,                \* the caller's list of boxes
    heap,                   \* array buffers by name: the caller's point cloud
                            \* "pc_velo" and the call's "pc_rect"
    self,                   \* the object under construction / the engine
    engine,                 \* what the constructor returned to the caller
    err,                    \* the exception the constructor raised
    pc,                     \* "new", "failed", "idle", "loop"
    num_objs,               \* _num_objs
    obj_idx,                \* the loop variable
    pc_image_coord,         \* the projections of line 143
    img_fov_inds,           \* the whole-image mask of line 143
    pc_rect,                \* the name of the buffer pc_rect refers to
    frustum_proposals,
    frustum_proposals_velo,
    sel,                    \* per box, np.arange(n)[box_fov_inds]
    ret,                    \* the last value get_frustum_proposal returned
    first,                  \* the value its first call returned
    repeated,               \* a call after the first has returned
    last                    \* the direct call of another operation made
                            \* since the last get_frustum_proposal call

vars == << calibs, img_shape, boxes2d, heap, self, engine, err, pc, num_objs,
           obj_idx, pc_image_coord, img_fov_inds, pc_rect, frustum_proposals,
           frustum_proposals_velo, sel, ret, first, repeated, last >>

caller == << calibs, img_shape, boxes2d >>
frame  == << num_objs, obj_idx, pc_image_coord, img_fov_inds, pc_rect,
             frustum_proposals, frustum_proposals_velo, sel >>

\* no direct call made since the last get_frustum_proposal call began
NoCall == [op |-> "none"]

Unset == [P |-> NoArray, V2C |-> NoArray, C2V |-> NoArray, R0 |-> NoArray]

Init ==
    /\ \E s \in GoodScenes \cup BadScenes :
          /\ calibs = s.calibs
          /\ img_shape = s.shape
          /\ boxes2d \in (IF s \in GoodScenes THEN SeqsUpTo(Boxes, MaxBoxes)
                                               ELSE { << >> })
          /\ \E cloud \in (IF s \in GoodScenes THEN SeqsUpTo(Points, MaxPts)
                                                ELSE { << >> }) :
                heap = [b \in {"pc_velo", "pc_rect"} |->
                           IF b = "pc_velo" THEN cloud ELSE << >>]
    /\ self = Unset
    /\ engine = None
    /\ err = None
    /\ pc = "new"
    /\ num_objs = 0
    /\ obj_idx = 0
    /\ pc_image_coord = << >>
    /\ img_fov_inds = << >>
    /\ pc_rect = None
    /\ frustum_proposals = << >>
    /\ frustum_proposals_velo = << >>
    /\ sel = << >>
    /\ ret = NoArray
    /\ first = NoArray
    /\ repeated = FALSE
    /\ last = NoCall

\* ------------------------------------------------------------ constructor
\* __init__ run to its end or to the statement that raises: the fields set
\* so far and the exception.  asserts is FALSE under python -O.
\* Line 46 asserts ('P' and 'Tr_velo_to_cam' and 'R0_rect' in calibs), which
\* is ('R0_rect' in calibs): a non-empty string is true.
AssertHolds(c) == "R0_rect" \in DOMAIN c

CtorR0(c, s) ==
    IF "R0_rect" \notin DOMAIN c THEN [self |-> s, err |-> "KeyError"]
    ELSE IF ~ReshapeOk(c["R0_rect"], 3, 3)
         THEN [self |-> [s EXCEPT !.R0 = c["R0_rect"]], err |-> "ValueError"]
    ELSE [self |-> [s EXCEPT !.R0 = Reshape(c["R0_rect"], 3, 3)], err |-> None]

CtorV2C(c, s) ==
    IF "Tr_velo_to_cam" \notin DOMAIN c THEN [self |-> s, err |-> "KeyError"]
    ELSE IF ~ReshapeOk(c["Tr_velo_to_cam"], 3, 4)
         THEN [self |-> [s EXCEPT !.V2C = c["Tr_velo_to_cam"]],
               err |-> "ValueError"]
    ELSE LET v2c == Reshape(c["Tr_velo_to_cam"], 3, 4)
         IN  CtorR0(c, [s EXCEPT !.V2C = v2c,
                                 !.C2V = inverse_rigid_trans(v2c)])

CtorP(c, s) ==
    IF "P" \notin DOMAIN c THEN [self |-> s, err |-> "KeyError"]
    ELSE IF ~ReshapeOk(c["P"], 3, 4)
         THEN [self |-> [s EXCEPT !.P = c["P"]], err |-> "ValueError"]
    ELSE CtorV2C(c, [s EXCEPT !.P = Reshape(c["P"], 3, 4)])

Ctor(c, asserts) ==
    IF asserts /\ ~AssertHolds(c)
    THEN [self |-> Unset, err |-> "AssertionError"]
    ELSE CtorP(c, Unset)

Construct ==
    /\ pc = "new"
    /\ \E asserts \in BOOLEAN :
          LET out == Ctor(calibs, asserts)
          IN  /\ self' = out.self
              /\ err' = out.err
              /\ engine' = IF out.err = None THEN "self" ELSE None
              /\ pc' = IF out.err = None THEN "idle" ELSE "failed"
    /\ UNCHANGED << caller, heap, frame, ret, first, repeated, last >>

\* --------------------------------------------------- get_frustum_proposal
\* faulty variant of AllocZerosLike: pc_rect = pc_velo, no new buffer
AllocAlias(h, src) == [heap |-> h, ref |-> src]
\* pc_rect = np.zeros_like(pc_velo): a new buffer of zeros, of the shape of
\* buffer src.  The heap after the allocation and the name of the new buffer.
AllocZerosLike(h, src) ==
    [heap |-> [h EXCEPT !["pc_rect"] = ZerosLike(h[src], 4)], ref |-> "pc_rect"]

\* buf[:, 0:3] = xyz, on the heap
StoreXYZ(h, ref, xyz) ==
    [h EXCEPT ![ref] = Arr([r \in 1..Len(@) |-> xyz[r] \o << @[r][4] >>])]

\* faulty variant of StoreAux: the column is left as zeros_like made it
StoreAuxSkipped(h, ref, src) == h
\* buf[:, 3] = src[:, 3], on the heap
StoreAux(h, ref, src) ==
    [h EXCEPT ![ref] =
        Arr([r \in 1..Len(@) |-> SubSeq(@[r], 1, 3) \o << h[src][r][4] >>])]

\* faulty variant of NumObjs: the last box is not counted
NumObjsOffByOne(boxes) == IF Len(boxes) > 0 THEN Len(boxes) - 1 ELSE 0
\* _num_objs = len(boxes2d)
NumObjs(boxes) == Len(boxes)

\* lines 150-154: the mask of one box
BoxFovInds(image_coord, fov_inds, box2d) ==
    Arr([i \in 1..Len(image_coord) |->
        /\ InBoxTest(image_coord[i], box2d[1], box2d[2], box2d[3], box2d[4])
        /\ fov_inds[i]])

\* lines 157-159: the gathered rows taken back to velodyne coordinates
InVeloFov(slf, pc_in_box_fov) ==
    LET zeros == ZerosLike(pc_in_box_fov, 4)
        xyz   == project_rect_to_velo(slf, Cols(pc_in_box_fov, 1, 3))
    IN  Arr([r \in 1..Len(zeros) |-> xyz[r] \o << pc_in_box_fov[r][4] >>])

\* lines 139-146
Call ==
    /\ pc = "idle"
    /\ LET img_height == img_shape[1]
           img_width  == img_shape[2]
           fov   == _get_lidar_in_image_fov(self, Cols(heap["pc_velo"], 1, 3),
                                           0, 0, img_width, img_height, DefaultClip)
           alloc == AllocZerosLike(heap, "pc_velo")
           h1    == StoreXYZ(alloc.heap, alloc.ref,
                        _project_velo_to_rect(self, Cols(alloc.heap["pc_velo"], 1, 3)))
       IN  /\ pc_image_coord' = fov.pts_2d
           /\ img_fov_inds' = fov.fov_inds
           /\ pc_rect' = alloc.ref
           /\ heap' = StoreAux(h1, alloc.ref, "pc_velo")
    /\ num_objs' = NumObjs(boxes2d)
    /\ obj_idx' = 0
    /\ frustum_proposals' = << >>
    /\ frustum_proposals_velo' = << >>
    /\ sel' = << >>
    /\ ret' = NoArray
    /\ last' = NoCall
    /\ pc' = "loop"
    /\ UNCHANGED << caller, self, engine, err, first, repeated >>

\* lines 147-163, one iteration
Loop ==
    /\ pc = "loop"
    /\ obj_idx < num_objs
    /\ LET box2d         == boxes2d[obj_idx + 1]
           box_fov_inds  == BoxFovInds(pc_image_coord, img_fov_inds, box2d)
           pc_in_box_fov == BoolIndex(heap[pc_rect], box_fov_inds)
       IN  /\ frustum_proposals' = Append(frustum_proposals, pc_in_box_fov)
           /\ frustum_proposals_velo' =
                  Append(frustum_proposals_velo, InVeloFov(self, pc_in_box_fov))
           /\ sel' = Append(sel, BoolIndex(Arr([i \in 1..Len(box_fov_inds) |-> i]),
                                           box_fov_inds))
    /\ obj_idx' = obj_idx + 1
    /\ UNCHANGED << caller, heap, self, engine, err, pc, num_objs, pc_image_coord,
                    img_fov_inds, pc_rect, ret, first, repeated, last >>

\* lines 164-165
Return ==
    /\ pc = "loop"
    /\ obj_idx >= num_objs
    /\ ret' = << frustum_proposals, frustum_proposals_velo >>
    /\ first' = IF first = NoArray THEN ret' ELSE first
    /\ repeated' = (first # NoArray)
    /\ pc' = "idle"
    /\ UNCHANGED << caller, heap, self, engine, err, frame, last >>

\* ---------------------------------------------------------- direct calls
\* Between two get_frustum_proposal calls the caller makes at most one direct
\* call and keeps its result in last.
\* the caller calls _get_lidar_in_image_fov on its cloud with a box and a
\* clip distance of its own
FovCall ==
    /\ pc = "idle"
    /\ last = NoCall
    /\ \E a \in FovArgs :
          last' = [op   |-> "fov",
                   args |-> a,
                   ret  |-> _get_lidar_in_image_fov(self, Cols(heap["pc_velo"], 1, 3),
                                a[1][1], a[1][2], a[1][3], a[1][4], a[2])]
    /\ UNCHANGED << caller, heap, self, engine, err, pc, frame, ret, first, repeated >>

\* the caller takes its cloud to the reference camera frame and back
RoundTripCall ==
    /\ pc = "idle"
    /\ last = NoCall
    /\ last' = [op   |-> "velo_ref_velo",
                args |-> << >>,
                ret  |-> _project_ref_to_velo(self,
                             _project_velo_to_ref(self, Cols(heap["pc_velo"], 1, 3)))]
    /\ UNCHANGED << caller, heap, self, engine, err, pc, frame, ret, first, repeated >>

Next ==
    \/ Construct
    \/ Call
    \/ Loop
    \/ Return
    \/ FovCall
    \/ RoundTripCall

Spec == Init /\ [][Next]_vars

\* ------------------------------------------------------------ properties
\* the caller's point cloud
Cloud == heap["pc_velo"]

\* lo <= q < hi for a projected coordinate q: q is a number (not an
\* infinity, not NaN) in the half-open interval
Within(q, lo, hi) == q.d > 0 /\ lo * q.d <= q.n /\ q.n < hi * q.d

\* q is exactly the number b
Exactly(q, b) == q.d > 0 /\ q.n = b * q.d

\* point i projects into box (xmin, ymin, xmax, ymax), upper bounds excluded
InBoxOf(i, box) ==
    /\ Within(pc_image_coord[i][1], box[1], box[3])
    /\ Within(pc_image_coord[i][2], box[2], box[4])

\* point i passes the whole-image filter
PassesImage(i) ==
    /\ Within(pc_image_coord[i][1], 0, img_shape[2])
    /\ Within(pc_image_coord[i][2], 0, img_shape[1])
    /\ Cloud[i][1] > 2

\* input point i is in the output subset of box number b
Selected(b, i) == \E k \in 1..Len(sel[b]) : sel[b][k] = i

\* the scenario of C1
Scenario ==
    /\ calibs = CalibIdentity
    /\ Cloud = << <<5, 0, 0, 1>> >>
    /\ img_shape = <<100, 100, 3>>
    /\ boxes2d = << <<0, 0, 50, 50>> >>

\* C1 as stated: in the scenario (identity P, V2C and R0, cloud [[5,0,0,1]],
\* image (100,100,3), box [0,0,50,50]) get_frustum_proposal returns two lists
\* of length 1 whose only subset holds exactly the point [5,0,0,1].
C1_ScenarioKeepsPoint ==
    (Scenario /\ ret # NoArray) =>
        ret = << << << <<5, 0, 0, 1>> >> >>, << << <<5, 0, 0, 1>> >> >> >>

\* C1 amended: in the scenario the point's depth (its rectified z) is 0, so it
\* projects to (+inf, NaN), which lies in no box: get_frustum_proposal returns
\* two lists of length 1 whose only subset is empty.
C1_ScenarioEmpty ==
    (Scenario /\ ret # NoArray) =>
        /\ pc_image_coord = << << [n |-> 1, d |-> 0], [n |-> 0, d |-> 0] >> >>
        /\ ret = << << << >> >>, << << >> >> >>

C1_Witness == Scenario /\ ret # NoArray /\ pc = "idle"

\* the mapping lacks a key, or a buffer has not 12 / 12 / 9 elements
BadCalibration ==
    \/ DOMAIN calibs # Keys
    \/ Len(calibs["P"]) # 12
    \/ Len(calibs["Tr_velo_to_cam"]) # 12
    \/ Len(calibs["R0_rect"]) # 9

C4_HalfOpenMembership ==
    /\ \A b \in 1..Len(sel) :
          /\ Len(frustum_proposals[b]) = Len(sel[b])
          /\ \A i \in 1..Len(Cloud) :
                Selected(b, i) <=> (InBoxOf(i, boxes2d[b]) /\ PassesImage(i))
    /\ last.op = "fov" =>
          /\ Len(last.ret.fov_inds) = Len(Cloud)
          /\ \A i \in 1..Len(Cloud) :
                last.ret.fov_inds[i] <=>
                    /\ Within(last.ret.pts_2d[i][1], last.args[1][1], last.args[1][3])
                    /\ Within(last.ret.pts_2d[i][2], last.args[1][2], last.args[1][4])
                    /\ Cloud[i][1] > last.args[2]

\* one point lies exactly on xmax and ymax of the first box (excluded) and on
\* xmin and ymin of the second (included)
C4_Witness ==
    /\ Len(sel) = 2
    /\ \E i \in 1..Len(Cloud) :
          /\ Exactly(pc_image_coord[i][1], boxes2d[1][3])
          /\ Exactly(pc_image_coord[i][2], boxes2d[1][4])
          /\ ~Selected(1, i)
          /\ Exactly(pc_image_coord[i][1], boxes2d[2][1])
          /\ Exactly(pc_image_coord[i][2], boxes2d[2][2])
          /\ Selected(2, i)

\* C5: the clip test is strict.  In _get_lidar_in_image_fov a point whose
\* first coordinate equals clip_distance is out of the mask and of the
\* filtered subset, a point beyond it is in the mask iff its pixel is in the
\* box; in get_frustum_proposal a point with first coordinate <= 2 is in no
\* box's output.
C5_StrictClip ==
    /\ last.op = "fov" =>
          /\ \A i \in 1..Len(Cloud) :
                /\ Cloud[i][1] <= last.args[2] => ~last.ret.fov_inds[i]
                /\ Cloud[i][1] > last.args[2] =>
                      (last.ret.fov_inds[i] <=>
                          /\ Within(last.ret.pts_2d[i][1], last.args[1][1], last.args[1][3])
                          /\ Within(last.ret.pts_2d[i][2], last.args[1][2], last.args[1][4]))
          /\ \A k \in 1..Len(last.ret.imgfov_pc_velo) :
                last.ret.imgfov_pc_velo[k][1] > last.args[2]
          /\ Len(last.ret.imgfov_pc_velo) =
                Cardinality({i \in 1..Len(Cloud) : last.ret.fov_inds[i]})
    /\ \A b \in 1..Len(sel) :
          /\ \A i \in 1..Len(Cloud) : Cloud[i][1] <= 2 => ~Selected(b, i)
          /\ \A k \in 1..Len(frustum_proposals_velo[b]) :
                Cloud[sel[b][k]][1] > 2

\* a direct call whose clip distance one point meets exactly, its pixel in the
\* box, and a get_frustum_proposal output that leaves out a point at distance
\* 2 and one at distance 1 whose pixels are in the box
C5_Witness ==
    /\ last.op = "fov"
    /\ \E i \in 1..Len(Cloud) :
          /\ Cloud[i][1] = last.args[2]
          /\ Within(last.ret.pts_2d[i][1], last.args[1][1], last.args[1][3])
          /\ Within(last.ret.pts_2d[i][2], last.args[1][2], last.args[1][4])
          /\ ~last.ret.fov_inds[i]
    /\ Len(sel) >= 1
    /\ \E i, j \in 1..Len(Cloud) :
          /\ Cloud[i][1] = 2
          /\ Cloud[j][1] = 1
          /\ InBoxOf(i, boxes2d[1]) /\ InBoxOf(j, boxes2d[1])
          /\ ~Selected(1, i) /\ ~Selected(1, j)

\* the three spatial coordinates of a row, as a one-row array
XYZ(row) == << SubSeq(row, 1, 3) >>

\* C3: in every emitted pair the two subsets have the same number of rows;
\* row k of the sensor-frame subset is project_rect_to_velo of row k of the
\* rectified-frame subset, and the fourth value of both rows is the auxiliary
\* value of the input point the row comes from.
C3_PairingConsistency ==
    /\ Len(frustum_proposals) = Len(frustum_proposals_velo)
    /\ \A b \in 1..Len(frustum_proposals) :
          /\ Len(frustum_proposals[b]) = Len(frustum_proposals_velo[b])
          /\ \A k \in 1..Len(frustum_proposals[b]) :
                /\ XYZ(frustum_proposals_velo[b][k]) =
                       project_rect_to_velo(self, XYZ(frustum_proposals[b][k]))
                /\ frustum_proposals_velo[b][k][4] = frustum_proposals[b][k][4]
                /\ frustum_proposals[b][k][4] = Cloud[sel[b][k]][4]
    /\ ret # NoArray => ret = << frustum_proposals, frustum_proposals_velo >>

\* a returned pair of two rows with different auxiliary values, under a
\* calibration that moves the points
C3_Witness ==
    /\ ret # NoArray
    /\ \E b \in 1..Len(ret[1]) :
          /\ Len(ret[1][b]) = 2
          /\ ret[1][b][1][4] # ret[1][b][2][4]
          /\ XYZ(ret[1][b][1]) # XYZ(ret[2][b][1])

\* the indices, in increasing order, of the points a box must select
ExpectedIdx(box) ==
    SelectSeq([i \in 1..Len(Cloud) |-> i],
              LAMBDA i : InBoxOf(i, box) /\ PassesImage(i))

\* the entry of a box as a function of the box, the image shape, the cloud and
\* the calibration alone
EntryRect(box) ==
    LET idx == ExpectedIdx(box)
    IN  [k \in 1..Len(idx) |->
            _project_velo_to_rect(self, XYZ(Cloud[idx[k]]))[1]
                \o << Cloud[idx[k]][4] >>]
EntryVelo(box) ==
    LET rect == EntryRect(box)
    IN  [k \in 1..Len(rect) |->
            project_rect_to_velo(self, XYZ(rect[k]))[1] \o << rect[k][4] >>]

\* C6: the two returned lists are as long as the box list; entry i of both is
\* the entry of box i, which depends on box i, the image shape and the cloud
\* only; an empty box list gives two empty lists and a box that matches no
\* point an empty subset.
C6_ParallelLists ==
    /\ pc = "loop" =>
          /\ Len(frustum_proposals) = obj_idx
          /\ Len(frustum_proposals_velo) = obj_idx
    /\ ret # NoArray =>
          /\ Len(ret) = 2
          /\ Len(ret[1]) = Len(boxes2d)
          /\ Len(ret[2]) = Len(boxes2d)
          /\ \A i \in 1..Len(boxes2d) :
                /\ ret[1][i] = EntryRect(boxes2d[i])
                /\ ret[2][i] = EntryVelo(boxes2d[i])

\* two different boxes, the first with an empty subset and the second not
C6_Witness ==
    /\ ret # NoArray
    /\ Len(boxes2d) = 2
    /\ boxes2d[1] # boxes2d[2]
    /\ ret[1][1] = << >>
    /\ ret[1][2] # << >>

\* C7: within a box's output the rows are in increasing order of their index
\* in the input cloud, in both subsets, and every selected input point gives
\* exactly one row.
C7_OrderPreserved ==
    \A b \in 1..Len(sel) :
        /\ \A k \in 1..(Len(sel[b]) - 1) : sel[b][k] < sel[b][k + 1]
        /\ Len(sel[b]) =
              Cardinality({i \in 1..Len(Cloud) :
                              InBoxOf(i, boxes2d[b]) /\ PassesImage(i)})
        /\ Len(frustum_proposals[b]) = Len(sel[b])
        /\ Len(frustum_proposals_velo[b]) = Len(sel[b])
        /\ \A k \in 1..Len(sel[b]) :
              /\ frustum_proposals[b][k] =
                    _project_velo_to_rect(self, XYZ(Cloud[sel[b][k]]))[1]
                        \o << Cloud[sel[b][k]][4] >>
              /\ frustum_proposals_velo[b][k][4] = Cloud[sel[b][k]][4]

\* a box that selects two different points
C7_Witness ==
    \E b \in 1..Len(sel) :
        /\ Len(sel[b]) = 2
        /\ Cloud[sel[b][1]] # Cloud[sel[b][2]]
        /\ frustum_proposals[b][1] # frustum_proposals[b][2]

\* M is [R|t] with R orthonormal
IsRigid(M) ==
    \A i, j \in 1..3 :
        M[i][1] * M[j][1] + M[i][2] * M[j][2] + M[i][3] * M[j][3]
            = (IF i = j THEN 1 ELSE 0)

\* C8: C2V is [R^T | -R^T t], and for a rigid V2C taking points to the
\* reference camera frame and back gives the points.
C8_RigidInverse ==
    pc \in {"idle", "loop"} =>
        /\ \A i, j \in 1..3 : self.C2V[i][j] = self.V2C[j][i]
        /\ \A i \in 1..3 :
              self.C2V[i][4] =
                  0 - ( self.V2C[1][i] * self.V2C[1][4]
                      + self.V2C[2][i] * self.V2C[2][4]
                      + self.V2C[3][i] * self.V2C[3][4] )
        /\ (IsRigid(self.V2C) /\ last.op = "velo_ref_velo") =>
              last.ret = Cols(Cloud, 1, 3)

\* a round trip of a non-empty cloud under a rigid V2C with a translation
C8_Witness ==
    /\ last.op = "velo_ref_velo"
    /\ IsRigid(self.V2C)
    /\ self.V2C[1][4] # 0
    /\ Len(Cloud) = 2
    /\ last.ret = Cols(Cloud, 1, 3)

\* C9: given a rigid V2C and an invertible R0, the sensor-frame subset of box
\* b is the rows of the input cloud that box b's mask selects,
\* pc_velo[box_fov_inds, :].
C9_VeloSubsetIsInput ==
    (pc \in {"idle", "loop"} /\ IsRigid(self.V2C) /\ Det3(self.R0) # 0) =>
        \A b \in 1..Len(frustum_proposals_velo) :
            frustum_proposals_velo[b] =
                [k \in 1..Len(sel[b]) |-> Cloud[sel[b][k]]]

\* a non-empty subset under a translation and an R0 that is not the identity
C9_Witness ==
    /\ pc \in {"idle", "loop"}
    /\ IsRigid(self.V2C)
    /\ self.V2C[1][4] # 0
    /\ self.R0 # Reshape(I33, 3, 3)
    /\ \E b \in 1..Len(frustum_proposals_velo) :
          /\ Len(frustum_proposals_velo[b]) >= 1
          /\ frustum_proposals_velo[b][1] # frustum_proposals[b][1]

\* C10: after construction no step changes P, V2C, C2V or R0, and no step
\* changes the caller's calibration, image shape, boxes or point cloud; every
\* value get_frustum_proposal returns is the value its first call returned.
C10_NoMutation ==
    [][ /\ pc \in {"idle", "loop"} => self' = self
        /\ calibs' = calibs
        /\ img_shape' = img_shape
        /\ boxes2d' = boxes2d
        /\ heap'["pc_velo"] = heap["pc_velo"]
        /\ ret' # NoArray => ret' = first' ]_vars

\* a repeated call has returned a non-empty subset, under a calibration that
\* moves the points
C10_Witness ==
    /\ repeated
    /\ ret # NoArray
    /\ ret = first
    /\ \E b \in 1..Len(ret[1]) :
          /\ Len(ret[1][b]) >= 1
          /\ XYZ(ret[1][b][1]) # XYZ(ret[2][b][1])

====
